---- MODULE Spec2Model ----
(***************************************************************************)
(* MultiplexService (src/lib.rs): a tower::Service that gates on the       *)
(* readiness of two inner services (rest, grpc) and routes each request to *)
(* one of them by sniffing the content-type header.                        *)
(***************************************************************************)
EXTENDS Integers, Sequences, FiniteSets, TLC

\* ------------------------------------------------------------------------
\* Bounds of the model
\* ------------------------------------------------------------------------

\* number of MultiplexService values that may exist (the original and clones)
MaxInst == 2

\* number of futures returned by call() that may be unfinished at one time
MaxInflight == 1

Inst == 1..MaxInst

Backends == {"rest", "grpc"}

\* ------------------------------------------------------------------------
\* Header values: raw bytes, as HeaderValue::as_bytes returns them
\* ------------------------------------------------------------------------

\* b"application/grpc", the prefix is_grpc_request looks for
GRPC_PREFIX ==
    <<97, 112, 112, 108, 105, 99, 97, 116, 105, 111, 110, 47, 103, 114, 112, 99>>

\* b"application/grpc"
CT_grpc ==
    <<97, 112, 112, 108, 105, 99, 97, 116, 105, 111, 110, 47, 103, 114, 112, 99>>

\* b"application/grpc+proto"
CT_grpc_proto ==
    <<97, 112, 112, 108, 105, 99, 97, 116, 105, 111, 110, 47, 103, 114, 112, 99,
      43, 112, 114, 111, 116, 111>>

\* b"application/grpc-web"
CT_grpc_web ==
    <<97, 112, 112, 108, 105, 99, 97, 116, 105, 111, 110, 47, 103, 114, 112, 99,
      45, 119, 101, 98>>

\* b"application/json"
CT_json ==
    <<97, 112, 112, 108, 105, 99, 97, 116, 105, 111, 110, 47, 106, 115, 111, 110>>

\* b"Application/grpc": differs from the prefix in the case of one byte
CT_upper ==
    <<65, 112, 112, 108, 105, 99, 97, 116, 105, 111, 110, 47, 103, 114, 112, 99>>

\* b"application/grp": a proper prefix of the prefix
CT_short ==
    <<97, 112, 112, 108, 105, 99, 97, 116, 105, 111, 110, 47, 103, 114, 112>>

\* b"": a header that is present and empty
CT_empty ==
    <<>>

\* b"application/grpc;\xc3\xa9": the prefix, then a valid two-byte UTF-8 sequence
CT_grpc_utf8 ==
    <<97, 112, 112, 108, 105, 99, 97, 116, 105, 111, 110, 47, 103, 114, 112, 99,
      59, 195, 169>>

\* b"application/grpc\xff": the prefix, then a byte that is never valid UTF-8
CT_grpc_bad ==
    <<97, 112, 112, 108, 105, 99, 97, 116, 105, 111, 110, 47, 103, 114, 112, 99,
      255>>

\* b"text/\xc3(": a two-byte lead followed by a non-continuation byte
CT_plain_bad ==
    <<116, 101, 120, 116, 47, 195, 40>>

\* b"\xffapplication/grpc": not UTF-8 and not starting with the prefix
CT_bad_lead ==
    <<255, 97, 112, 112, 108, 105, 99, 97, 116, 105, 111, 110, 47, 103, 114, 112,
      99>>

HeaderValues ==
    { CT_grpc, CT_grpc_proto, CT_grpc_web, CT_json, CT_upper, CT_short, CT_empty,
      CT_grpc_utf8, CT_grpc_bad, CT_plain_bad, CT_bad_lead }

\* Option<&HeaderValue>: <<>> is None, <<v>> is Some(v)
None == <<>>

Some(v) == <<v>>

\* A request, reduced to what the dispatcher reads of it: headers().get("content-type")
Requests ==
    { [content_type |-> None] } \cup
    { [content_type |-> Some(v)] : v \in HeaderValues }

\* ------------------------------------------------------------------------
\* Pure functions
\* ------------------------------------------------------------------------

\* <[u8]>::starts_with
starts_with(s, p) ==
    /\ Len(p) <= Len(s)
    /\ SubSeq(s, 1, Len(p)) = p

\* a UTF-8 continuation byte
IsCont(b) == b >= 128 /\ b <= 191

\* the length of the well-formed UTF-8 sequence at the head of s, 0 if there is none
Utf8Width(s) ==
    LET n == Len(s)
        b1 == s[1]
    IN  IF b1 < 128 THEN 1
        ELSE IF b1 >= 194 /\ b1 <= 223
            THEN IF n >= 2 /\ IsCont(s[2]) THEN 2 ELSE 0
        ELSE IF b1 = 224
            THEN IF n >= 3 /\ s[2] >= 160 /\ s[2] <= 191 /\ IsCont(s[3]) THEN 3 ELSE 0
        ELSE IF (b1 >= 225 /\ b1 <= 236) \/ b1 = 238 \/ b1 = 239
            THEN IF n >= 3 /\ IsCont(s[2]) /\ IsCont(s[3]) THEN 3 ELSE 0
        ELSE IF b1 = 237
            THEN IF n >= 3 /\ s[2] >= 128 /\ s[2] <= 159 /\ IsCont(s[3]) THEN 3 ELSE 0
        ELSE IF b1 = 240
            THEN IF n >= 4 /\ s[2] >= 144 /\ s[2] <= 191 /\ IsCont(s[3]) /\ IsCont(s[4])
                 THEN 4 ELSE 0
        ELSE IF b1 >= 241 /\ b1 <= 243
            THEN IF n >= 4 /\ IsCont(s[2]) /\ IsCont(s[3]) /\ IsCont(s[4]) THEN 4 ELSE 0
        ELSE IF b1 = 244
            THEN IF n >= 4 /\ s[2] >= 128 /\ s[2] <= 143 /\ IsCont(s[3]) /\ IsCont(s[4])
                 THEN 4 ELSE 0
        ELSE 0

RECURSIVE from_utf8_is_ok(_)
\* String::from_utf8(bytes).is_ok()
from_utf8_is_ok(s) ==
    IF Len(s) = 0 THEN TRUE
    ELSE LET w == Utf8Width(s)
         IN  IF w = 0 THEN FALSE ELSE from_utf8_is_ok(SubSeq(s, w + 1, Len(s)))

\* is_grpc_request: whether evaluating it panics. The closure of .map() runs only
\* for Some(content_type); info!() evaluates its argument, the unwrap() of
\* String::from_utf8, only when the Info level is enabled.
is_grpc_request_panics(req, info_enabled) ==
    /\ req.content_type # None
    /\ info_enabled
    /\ ~from_utf8_is_ok(req.content_type[1])

\* is_grpc_request with a missing header taken for a grpc request
is_grpc_request_absent_is_grpc(req) ==
    \/ req.content_type = None
    \/ starts_with(req.content_type[1], GRPC_PREFIX)

\* is_grpc_request: its value when it returns
is_grpc_request(req) ==
    /\ req.content_type # None
    /\ starts_with(req.content_type[1], GRPC_PREFIX)

\* ------------------------------------------------------------------------
\* Origin header values and the origin predicates of the two CORS layers
\* ------------------------------------------------------------------------

\* b"xambit.io", the suffix the origin predicates look for
XAMBIT_SUFFIX ==
    <<120, 97, 109, 98, 105, 116, 46, 105, 111>>

\* b"http://localhost", the prefix the origin predicates look for
LOCALHOST_PREFIX ==
    <<104, 116, 116, 112, 58, 47, 47, 108, 111, 99, 97, 108, 104, 111, 115, 116>>

\* b"https://"
O_https ==
    <<104, 116, 116, 112, 115, 58, 47, 47>>

\* b"http://"
O_http ==
    <<104, 116, 116, 112, 58, 47, 47>>

\* b"https://localhost"
O_https_localhost ==
    <<104, 116, 116, 112, 115, 58, 47, 47, 108, 111, 99, 97, 108, 104, 111, 115, 116>>

\* b"HTTP://LOCALHOST"
O_upper_localhost ==
    <<72, 84, 84, 80, 58, 47, 47, 76, 79, 67, 65, 76, 72, 79, 83, 84>>

\* b"app."
O_app ==
    <<97, 112, 112, 46>>

\* b"evil.com"
O_evil ==
    <<101, 118, 105, 108, 46, 99, 111, 109>>

\* b":3000"
O_port ==
    <<58, 51, 48, 48, 48>>

\* b"x"
O_x ==
    <<120>>

\* b"xambit.io/"
O_xambit_slash ==
    <<120, 97, 109, 98, 105, 116, 46, 105, 111, 47>>

\* b"xambit.io.evil.com"
O_xambit_evil ==
    <<120, 97, 109, 98, 105, 116, 46, 105, 111, 46, 101, 118, 105, 108, 46, 99, 111, 109>>

\* b"XAMBIT.IO"
O_upper_xambit ==
    <<88, 65, 77, 66, 73, 84, 46, 73, 79>>

\* how the origin values of the model begin
OriginHeads == {<<>>, LOCALHOST_PREFIX, O_https, O_http, O_https_localhost, O_upper_localhost}

\* what follows the beginning
OriginMiddles == {<<>>, O_app, O_evil, O_port, O_x}

\* how they end
OriginTails == {<<>>, XAMBIT_SUFFIX, O_xambit_slash, O_xambit_evil, O_upper_xambit}

\* the origin header values of the model, among them b"", b"https://app.xambit.io",
\* b"http://localhost:3000" and b"https://evil.com"
Origins == {h \o m \o t : h \in OriginHeads, m \in OriginMiddles, t \in OriginTails}

\* <[u8]>::ends_with
ends_with(s, p) ==
    /\ Len(p) <= Len(s)
    /\ SubSeq(s, Len(s) - Len(p) + 1, Len(s)) = p

\* HeaderValue::is_empty
is_empty(v) == Len(v) = 0

\* the closure given to AllowOrigin::predicate in xai_rest_layer
rest_allow_origin(origin) ==
    \/ is_empty(origin)
    \/ ends_with(origin, XAMBIT_SUFFIX)
    \/ starts_with(origin, LOCALHOST_PREFIX)

\* the grpc closure without its third disjunct
grpc_allow_origin_no_localhost(origin) ==
    \/ is_empty(origin)
    \/ ends_with(origin, XAMBIT_SUFFIX)

\* the closure given to AllowOrigin::predicate in xai_grpc_layer
grpc_allow_origin(origin) ==
    \/ is_empty(origin)
    \/ ends_with(origin, XAMBIT_SUFFIX)
    \/ starts_with(origin, LOCALHOST_PREFIX)

\* ------------------------------------------------------------------------
\* Values returned by the operations
\* ------------------------------------------------------------------------

\* B::Error values the grpc service can produce
GrpcErrors == {"E1", "E2"}

\* Poll::Pending
Pending == [kind |-> "Pending", val |-> "none"]

\* Poll::Ready(Ok(()))
ReadyOk == [kind |-> "Ok", val |-> "none"]

\* Poll::Ready(Err(e))
ReadyErr(e) == [kind |-> "Err", val |-> e]

\* an unwinding panic with its message
Panic(msg) == [kind |-> "Panic", val |-> msg]

\* call() returned its boxed future
Future == [kind |-> "Future", val |-> "none"]

\* no value (the step returns nothing of interest)
NoRet == [kind |-> "None", val |-> "none"]

\* what A::poll_ready can return: A::Error = Infallible has no value
RestPollResults == {Pending, ReadyOk}

\* what B::poll_ready can return
GrpcPollResults == {Pending, ReadyOk} \cup {ReadyErr(e) : e \in GrpcErrors}

\* ------------------------------------------------------------------------
\* The handlers, as functions of the fields of self
\* ------------------------------------------------------------------------

\* MultiplexService::new: the two flags of a fresh value
new == [rest_ready |-> FALSE, grpc_ready |-> FALSE]

\* clone as #[derive(Clone)] would write it: the flags are copied
clone_copies_flags(self) == [rest_ready |-> self.rest_ready, grpc_ready |-> self.grpc_ready]

\* Clone::clone: the two flags of the clone
clone(self) == [rest_ready |-> FALSE, grpc_ready |-> FALSE]

\* the match with its first arm written (true, _): the grpc flag is not looked at
poll_arm_rest_only(rest_ready, grpc_ready) ==
    IF rest_ready THEN "return" ELSE "rest"

\* the match with the grpc arm tried before the rest arm
poll_arm_grpc_first(rest_ready, grpc_ready) ==
    IF rest_ready /\ grpc_ready THEN "return"
    ELSE IF ~grpc_ready THEN "grpc"
    ELSE "rest"

\* the arm the match in poll_ready takes on (self.rest_ready, self.grpc_ready)
poll_arm(rest_ready, grpc_ready) ==
    IF rest_ready /\ grpc_ready THEN "return"
    ELSE IF ~rest_ready THEN "rest"
    ELSE "grpc"

\* the rest arm with the flag written before ready! looks at the answer
poll_rest_arm_sets_on_pending(self, res) ==
    IF res.kind = "Pending"
    THEN [self |-> [self EXCEPT !.rest_ready = TRUE], go |-> FALSE, ret |-> Pending]
    ELSE [self |-> [self EXCEPT !.rest_ready = TRUE], go |-> TRUE, ret |-> NoRet]

\* arm (false, _): ready!(self.rest.poll_ready(cx)).map_err(|err| match err {})?
\* then self.rest_ready = true. "go" is whether the loop goes on.
poll_rest_arm(self, res) ==
    IF res.kind = "Pending"
    THEN [self |-> self, go |-> FALSE, ret |-> Pending]
    ELSE [self |-> [self EXCEPT !.rest_ready = TRUE], go |-> TRUE, ret |-> NoRet]

\* the grpc arm with the error dropped: any Ready answer sets the flag
poll_grpc_arm_swallows(self, res) ==
    IF res.kind = "Pending"
    THEN [self |-> self, go |-> FALSE, ret |-> Pending]
    ELSE [self |-> [self EXCEPT !.grpc_ready = TRUE], go |-> TRUE, ret |-> NoRet]

\* the grpc arm giving up the rest confirmation when grpc is not ready
poll_grpc_arm_drops_rest(self, res) ==
    IF res.kind = "Pending"
    THEN [self |-> [self EXCEPT !.rest_ready = FALSE], go |-> FALSE, ret |-> Pending]
    ELSE IF res.kind = "Err"
    THEN [self |-> [self EXCEPT !.rest_ready = FALSE], go |-> FALSE, ret |-> ReadyErr(res.val)]
    ELSE [self |-> [self EXCEPT !.grpc_ready = TRUE], go |-> TRUE, ret |-> NoRet]

\* arm (_, false): ready!(self.grpc.poll_ready(cx))? then self.grpc_ready = true
poll_grpc_arm(self, res) ==
    IF res.kind = "Pending"
    THEN [self |-> self, go |-> FALSE, ret |-> Pending]
    ELSE IF res.kind = "Err"
    THEN [self |-> self, go |-> FALSE, ret |-> ReadyErr(res.val)]
    ELSE [self |-> [self EXCEPT !.grpc_ready = TRUE], go |-> TRUE, ret |-> NoRet]

RECURSIVE poll_loop(_, _, _, _)
\* the loop of poll_ready. rest_res and grpc_res are what the inner services'
\* poll_ready return when asked; polled lists the inner services asked, in order.
poll_loop(self, rest_res, grpc_res, polled) ==
    LET arm == poll_arm(self.rest_ready, self.grpc_ready)
    IN  IF arm = "return"
        THEN [self |-> self, ret |-> ReadyOk, polled |-> polled]
        ELSE LET r == IF arm = "rest" THEN poll_rest_arm(self, rest_res)
                                       ELSE poll_grpc_arm(self, grpc_res)
                 p == Append(polled, arm)
             IN  IF r.go
                 THEN poll_loop(r.self, rest_res, grpc_res, p)
                 ELSE [self |-> r.self, ret |-> r.ret, polled |-> p]

\* poll_ready whose (_, false) arm suspends without asking the grpc service
poll_ready_never_asks_grpc(self, rest_res, grpc_res) ==
    IF self.rest_ready /\ self.grpc_ready
    THEN [self |-> self, ret |-> ReadyOk, polled |-> <<>>]
    ELSE IF ~self.rest_ready
    THEN [self |-> poll_rest_arm(self, rest_res).self, ret |-> Pending,
          polled |-> <<"rest">>]
    ELSE [self |-> self, ret |-> Pending, polled |-> <<>>]

\* poll_ready driving readiness from scratch on every call
poll_ready_from_scratch(self, rest_res, grpc_res) == poll_loop(new, rest_res, grpc_res, <<>>)

\* MultiplexService::poll_ready
poll_ready(self, rest_res, grpc_res) == poll_loop(self, rest_res, grpc_res, <<>>)

\* call() with the second assert! missing
call_asserts_grpc_only(self) ==
    IF ~self.grpc_ready THEN "grpc service not ready" ELSE "ok"

\* the two assert!s that open call(): the head of the panic message, or "ok"
call_asserts(self) ==
    IF ~self.grpc_ready
    THEN "grpc service not ready"
    ELSE IF ~self.rest_ready
    THEN "rest service not ready"
    ELSE "ok"

\* the branches of call() without the writes to the flags
call_route_keeps_flag(self, grpc) ==
    IF grpc THEN [self |-> self, invoked |-> "grpc"]
    ELSE [self |-> self, invoked |-> "rest"]

\* the branches of call() clearing both flags
call_route_clears_both(self, grpc) ==
    [self |-> [rest_ready |-> FALSE, grpc_ready |-> FALSE],
     invoked |-> IF grpc THEN "grpc" ELSE "rest"]

\* the branch of call() taken for a request classified grpc (TRUE) or not:
\* the flag it clears and the inner service it calls
call_route(self, grpc) ==
    IF grpc
    THEN [self |-> [self EXCEPT !.grpc_ready = FALSE], invoked |-> "grpc"]
    ELSE [self |-> [self EXCEPT !.rest_ready = FALSE], invoked |-> "rest"]

\* MultiplexService::call
call(self, req, info_enabled) ==
    LET a == call_asserts(self)
    IN  IF a # "ok"
        THEN [self |-> self, ret |-> Panic(a), invoked |-> "none"]
        ELSE IF is_grpc_request_panics(req, info_enabled)
        THEN [self |-> self, ret |-> Panic("from_utf8 unwrap"), invoked |-> "none"]
        ELSE LET r == call_route(self, is_grpc_request(req))
             IN  [self |-> r.self, ret |-> Future, invoked |-> r.invoked]

\* ------------------------------------------------------------------------
\* State
\* ------------------------------------------------------------------------

VARIABLES
    n_inst,          \* how many MultiplexService values exist: 1..n_inst
    rest_ready,      \* self.rest_ready of each value
    grpc_ready,      \* self.grpc_ready of each value
    max_level_info,  \* whether the log crate's Info level is enabled
    balance,         \* per value and inner service: poll_ready calls that returned
                     \* Ready(Ok), minus call() invocations of that inner service
    inflight,        \* per value and inner service: futures returned by call, unfinished
    cors,            \* the origin predicate evaluated last: the layer, the origin
                     \* header value and the predicate's answer
    last             \* the step just taken: the operation, the value it ran on, the
                     \* request, the flags before it, the inner services it asked
                     \* (polled) and their answers, the inner service it called
                     \* (invoked) and what it returned (ret)

vars == <<n_inst, rest_ready, grpc_ready, max_level_info, balance, inflight, cors, last>>

\* the fields of value i, as the handlers read them
Self(i) == [rest_ready |-> rest_ready[i], grpc_ready |-> grpc_ready[i]]

\* a write to a flag that all values share
store_shared(f, i, v) == [j \in DOMAIN f |-> v]

\* a write to a field of value i: each value owns its two flags
store(f, i, v) == [f EXCEPT ![i] = v]

\* the placeholder of last.req in the steps that take no request
NoReq == [content_type |-> None]

ZeroCount == [i \in Inst |-> [b \in Backends |-> 0]]

RECURSIVE SumInflight(_, _)
\* the unfinished futures counted in c, over the values 1..n
SumInflight(c, n) ==
    IF n = 0 THEN 0 ELSE c[n]["rest"] + c[n]["grpc"] + SumInflight(c, n - 1)

\* the state after MultiplexService::new(rest, grpc)
Init ==
    /\ n_inst = 1
    /\ rest_ready = [i \in Inst |-> new.rest_ready]
    /\ grpc_ready = [i \in Inst |-> new.grpc_ready]
    /\ max_level_info \in BOOLEAN
    /\ balance = ZeroCount
    /\ inflight = ZeroCount
    /\ cors = [layer |-> "none", origin |-> <<>>, allowed |-> FALSE]
    /\ last = [op |-> "new", inst |-> 1, ret |-> NoRet, req |-> NoReq,
               invoked |-> "none", polled |-> <<>>, answers |-> <<>>, pre |-> new]

\* Service::poll_ready on value i; rest_res and grpc_res are the answers the inner
\* services give if they are asked
PollReady(i, rest_res, grpc_res) ==
    /\ i <= n_inst
    /\ \E r \in {poll_ready(Self(i), rest_res, grpc_res)} :
       LET ans == [k \in 1..Len(r.polled) |->
                      IF r.polled[k] = "rest" THEN rest_res ELSE grpc_res]
           okd == { b \in Backends :
                      \E k \in 1..Len(r.polled) : r.polled[k] = b /\ ans[k].kind = "Ok" }
       IN  /\ rest_ready' = store(rest_ready, i, r.self.rest_ready)
           /\ grpc_ready' = store(grpc_ready, i, r.self.grpc_ready)
           /\ balance' = [balance EXCEPT ![i] =
                            [b \in Backends |-> IF b \in okd THEN @[b] + 1 ELSE @[b]]]
           /\ last' = [op |-> "poll_ready", inst |-> i, ret |-> r.ret,
                       req |-> NoReq, invoked |-> "none", polled |-> r.polled,
                       answers |-> ans, pre |-> Self(i)]
    /\ UNCHANGED <<n_inst, max_level_info, inflight, cors>>

\* Service::call on value i with request req
Call(i, req) ==
    /\ i <= n_inst
    /\ \E r \in {call(Self(i), req, max_level_info)} :
           /\ r.invoked # "none" => SumInflight(inflight, MaxInst) < MaxInflight
           /\ rest_ready' = store(rest_ready, i, r.self.rest_ready)
           /\ grpc_ready' = store(grpc_ready, i, r.self.grpc_ready)
           /\ balance' = IF r.invoked = "none" THEN balance
                         ELSE [balance EXCEPT ![i][r.invoked] = @ - 1]
           /\ inflight' = IF r.invoked = "none" THEN inflight
                          ELSE [inflight EXCEPT ![i][r.invoked] = @ + 1]
           /\ last' = [op |-> "call", inst |-> i, ret |-> r.ret,
                       req |-> req, invoked |-> r.invoked, polled |-> <<>>,
                       answers |-> <<>>, pre |-> Self(i)]
    /\ UNCHANGED <<n_inst, max_level_info, cors>>

\* Clone::clone of value i: the clone becomes value n_inst + 1
Clone(i) ==
    /\ i <= n_inst
    /\ n_inst < MaxInst
    /\ \E c \in {clone(Self(i))} :
           /\ n_inst' = n_inst + 1
           /\ rest_ready' = store(rest_ready, n_inst + 1, c.rest_ready)
           /\ grpc_ready' = store(grpc_ready, n_inst + 1, c.grpc_ready)
           /\ last' = [op |-> "clone", inst |-> i, ret |-> NoRet,
                       req |-> NoReq, invoked |-> "none", polled |-> <<>>,
                       answers |-> <<>>, pre |-> Self(i)]
    /\ UNCHANGED <<max_level_info, balance, inflight, cors>>

\* what the inner future of backend b can resolve to: A::Error is Infallible
InnerResults(b) ==
    IF b = "rest" THEN {[kind |-> "Ok", val |-> "rest response"]}
    ELSE {[kind |-> "Ok", val |-> "grpc response"]} \cup {ReadyErr(e) : e \in GrpcErrors}

\* the async block with the error turned into a response as well
await_result_normalizes_error(b, res) ==
    [kind |-> "Response", val |-> res.val]

\* the async block of call(): future.await? then Ok(res.into_response())
await_result(b, res) ==
    IF res.kind = "Err" THEN ReadyErr(res.val)
    ELSE [kind |-> "Response", val |-> res.val]

\* the future call() returned for backend b of value i runs to completion
FutureComplete(i, b, res) ==
    /\ i <= n_inst
    /\ inflight[i][b] > 0
    /\ res \in InnerResults(b)
    /\ inflight' = [inflight EXCEPT ![i][b] = @ - 1]
    /\ last' = [op |-> "complete", inst |-> i, ret |-> await_result(b, res),
                req |-> NoReq, invoked |-> b, polled |-> <<>>, answers |-> <<res>>,
                pre |-> Self(i)]
    /\ UNCHANGED <<n_inst, rest_ready, grpc_ready, max_level_info, balance, cors>>

\* a drop that hands the readiness confirmation back: the flag is set again
FutureDrop_restores_flag(i, b) ==
    /\ i <= n_inst
    /\ inflight[i][b] > 0
    /\ inflight' = [inflight EXCEPT ![i][b] = @ - 1]
    /\ rest_ready' = IF b = "rest" THEN store(rest_ready, i, TRUE) ELSE rest_ready
    /\ grpc_ready' = IF b = "grpc" THEN store(grpc_ready, i, TRUE) ELSE grpc_ready
    /\ last' = [op |-> "drop", inst |-> i, ret |-> NoRet,
                req |-> NoReq, invoked |-> b, polled |-> <<>>, answers |-> <<>>, pre |-> Self(i)]
    /\ UNCHANGED <<n_inst, max_level_info, balance, cors>>

\* the future call() returned for backend b of value i is dropped before it completes:
\* the inner future is dropped with it and no field of the value is touched
FutureDrop(i, b) ==
    /\ i <= n_inst
    /\ inflight[i][b] > 0
    /\ inflight' = [inflight EXCEPT ![i][b] = @ - 1]
    /\ last' = [op |-> "drop", inst |-> i, ret |-> NoRet,
                req |-> NoReq, invoked |-> b, polled |-> <<>>, answers |-> <<>>, pre |-> Self(i)]
    /\ UNCHANGED <<n_inst, rest_ready, grpc_ready, max_level_info, balance, cors>>

\* the requests of the readiness protocol's specification: no header, a grpc
\* header, a plain header, and a header that is not UTF-8
CoreRequests ==
    { [content_type |-> None], [content_type |-> Some(CT_grpc_proto)],
      [content_type |-> Some(CT_json)], [content_type |-> Some(CT_grpc_bad)] }

\* the readiness protocol: every operation, on the original and its clones
Next ==
    \/ \E i \in Inst, rr \in RestPollResults, gr \in GrpcPollResults : PollReady(i, rr, gr)
    \/ \E i \in Inst, req \in CoreRequests : Call(i, req)
    \/ \E i \in Inst : Clone(i)
    \/ \E i \in Inst, b \in Backends, res \in InnerResults("grpc") : FutureComplete(i, b, res)
    \/ \E i \in Inst, b \in Backends : FutureDrop(i, b)

Spec == Init /\ [][Next]_vars

\* content sniffing: one value, every header value of the model
NextSniff ==
    \/ \E rr \in RestPollResults, gr \in GrpcPollResults : PollReady(1, rr, gr)
    \/ \E req \in Requests : Call(1, req)
    \/ \E b \in Backends, res \in InnerResults("grpc") : FutureComplete(1, b, res)
    \/ \E b \in Backends : FutureDrop(1, b)

SpecSniff == Init /\ [][NextSniff]_vars

\* a poll_ready on value 1 in which the rest service is asked and answers ready
PollRestReady ==
    /\ ~rest_ready[1]
    /\ \E gr \in GrpcPollResults : PollReady(1, ReadyOk, gr)

\* a poll_ready on value 1 in which the grpc service is asked and answers ready
PollGrpcReady ==
    /\ rest_ready[1]
    /\ ~grpc_ready[1]
    /\ \E rr \in RestPollResults : PollReady(1, rr, ReadyOk)

\* one value whose caller keeps polling and whose inner services, asked again and
\* again, end up answering ready
SpecLive ==
    /\ Init
    /\ [][NextSniff]_vars
    /\ WF_vars(PollRestReady)
    /\ WF_vars(PollGrpcReady)

\* the CORS layer of the rest service evaluates its origin predicate
RestAllowOrigin(origin) ==
    /\ cors' = [layer |-> "rest", origin |-> origin, allowed |-> rest_allow_origin(origin)]
    /\ UNCHANGED <<n_inst, rest_ready, grpc_ready, max_level_info, balance, inflight, last>>

\* the CORS layer of the grpc service evaluates its origin predicate
GrpcAllowOrigin(origin) ==
    /\ cors' = [layer |-> "grpc", origin |-> origin, allowed |-> grpc_allow_origin(origin)]
    /\ UNCHANGED <<n_inst, rest_ready, grpc_ready, max_level_info, balance, inflight, last>>

\* the origin predicates, on every origin value of the model
NextOrigin ==
    \/ \E origin \in Origins : RestAllowOrigin(origin)
    \/ \E origin \in Origins : GrpcAllowOrigin(origin)

SpecOrigin == Init /\ [][NextOrigin]_vars

\* the values every variable ranges over
TypeOK ==
    /\ n_inst \in Inst
    /\ rest_ready \in [Inst -> BOOLEAN]
    /\ grpc_ready \in [Inst -> BOOLEAN]
    /\ max_level_info \in BOOLEAN
    /\ \A i \in Inst, b \in Backends :
          /\ balance[i][b] \in {0, 1}
          /\ inflight[i][b] \in 0..MaxInflight
    /\ cors.layer \in {"none", "rest", "grpc"}
    /\ cors.allowed \in BOOLEAN
    /\ last.op \in {"new", "poll_ready", "call", "clone", "complete", "drop"}

\* ------------------------------------------------------------------------
\* Properties
\* ------------------------------------------------------------------------

\* the flag of inner service b in value i
Flag(i, b) == IF b = "rest" THEN rest_ready[i] ELSE grpc_ready[i]

\* the other inner service
Other(b) == IF b = "rest" THEN "grpc" ELSE "rest"

\* both flags of a record of flags are set
BothReady(f) == f.rest_ready /\ f.grpc_ready

\* the messages of the two assert!s of call()
PreconditionPanics == {Panic("grpc service not ready"), Panic("rest service not ready")}

\* C1: call() invokes an inner service only from a state in which the flags were
\* checked-and-ready, and in the state right after the invocation the flag of the
\* invoked service is cleared and its readiness confirmation is used up; an inner
\* service is never invoked more often than it was confirmed ready.
C1_InvokedOnlyReadyAndCleared ==
    /\ \A i \in Inst, b \in Backends : balance[i][b] >= 0
    /\ (last.op = "call" /\ last.invoked # "none") =>
          /\ BothReady(last.pre)
          /\ ~Flag(last.inst, last.invoked)
          /\ balance[last.inst][last.invoked] = 0

\* C1 witness: a dispatch has just invoked the grpc service and its flag is cleared
C1_Witness ==
    /\ last.op = "call"
    /\ last.invoked = "grpc"
    /\ last.pre.grpc_ready
    /\ ~grpc_ready[last.inst]

\* C2: a call() entered with a flag not set panics on one of the two assert!s,
\* whatever the request is classified as; it invokes no inner service, returns no
\* future and leaves the flags as they were.
C2_CallBeforeReadyPanics ==
    (last.op = "call" /\ ~BothReady(last.pre)) =>
        /\ last.ret \in PreconditionPanics
        /\ last.invoked = "none"
        /\ Self(last.inst) = last.pre

\* C2 witness: a grpc request was dispatched on a fresh value and hit the assert!
C2_Witness ==
    /\ last.op = "call"
    /\ last.pre = new
    /\ is_grpc_request(last.req)
    /\ last.ret \in PreconditionPanics

\* C3, in a step: a call() taken right after a call() on the same value that
\* invoked an inner service fails an assert! and invokes nothing
C3_SecondCallFails ==
    (/\ last.op = "call"
     /\ last.invoked # "none"
     /\ last'.op = "call"
     /\ last'.inst = last.inst)
    => /\ last'.ret \in PreconditionPanics
       /\ last'.invoked = "none"

\* C3: after poll_ready succeeded and one call() was routed to X, the flag of X is
\* not set and the flag of the other inner service is still set; a second call()
\* without a new poll_ready fails the precondition wherever it would be routed.
C3_OneFlagClearedPerCall ==
    /\ [](last.op = "call" /\ last.invoked # "none" =>
            /\ ~Flag(last.inst, last.invoked)
            /\ Flag(last.inst, Other(last.invoked)))
    /\ [][C3_SecondCallFails]_vars

\* C3 witness: a second dispatch, on a value whose rest flag a first dispatch
\* had cleared, fails while the grpc flag is still set
C3_Witness ==
    /\ last.op = "call"
    /\ ~last.pre.rest_ready
    /\ last.pre.grpc_ready
    /\ last.ret \in PreconditionPanics
    /\ grpc_ready[last.inst]

\* C4: poll_ready returns Ready(Ok) exactly in the states in which both flags are
\* set: when it returns Pending or an error, a flag is not set.
C4_ReadyOnlyWhenBoth ==
    last.op = "poll_ready" =>
        /\ last.ret.kind \in {"Ok", "Pending", "Err"}
        /\ (last.ret.kind = "Ok" <=> BothReady(Self(last.inst)))

\* C4 witness: poll_ready on a fresh value asked both inner services and succeeded
C4_Witness ==
    /\ last.op = "poll_ready"
    /\ last.pre = new
    /\ last.polled = <<"rest", "grpc">>
    /\ last.ret = ReadyOk

\* C5, in a step: a clone step leaves the flags of every existing value as they
\* were and gives the new value two flags that are not set; a call() on the new
\* value right after fails an assert!
C5_CloneStep ==
    /\ n_inst' = n_inst + 1 =>
          /\ \A i \in 1..n_inst :
                rest_ready'[i] = rest_ready[i] /\ grpc_ready'[i] = grpc_ready[i]
          /\ ~rest_ready'[n_inst'] /\ ~grpc_ready'[n_inst']
    /\ (last.op = "clone" /\ last'.op = "call" /\ last'.inst = n_inst) =>
          /\ last'.ret \in PreconditionPanics
          /\ last'.invoked = "none"

\* C5: cloning a value in any state gives a clone whose flags are both not set,
\* and does not change the flags of the original.
C5_CloneStartsNotReady == [][C5_CloneStep]_vars

\* C5 witness: a value whose flags are both set has just been cloned; the clone's
\* flags are not set and the original's still are
C5_Witness ==
    /\ last.op = "clone"
    /\ BothReady(last.pre)
    /\ BothReady(Self(last.inst))
    /\ ~rest_ready[n_inst]
    /\ ~grpc_ready[n_inst]

\* C6, in a step: a poll_ready, a call(), or the end of a future on one value
\* changes no flag, confirmation count or future of another value
C6_Frame ==
    \A j \in Inst :
        (\/ rest_ready'[j] # rest_ready[j]
         \/ grpc_ready'[j] # grpc_ready[j]
         \/ balance'[j] # balance[j]
         \/ inflight'[j] # inflight[j])
        => (j = last'.inst /\ last'.op # "clone")

\* C6: two values operate independently under every interleaving: a step on one
\* never changes a flag of the other, and on each value a flag is set exactly
\* while a readiness confirmation of that inner service is unused.
C6_Independent ==
    /\ [][C6_Frame]_vars
    /\ [](\A i \in Inst, b \in Backends : Flag(i, b) <=> balance[i][b] = 1)

\* C6 witness: the clone has dispatched a request while the original, prepared
\* before, still has both flags set
C6_Witness ==
    /\ n_inst >= 2
    /\ last.op = "call"
    /\ last.inst = 2
    /\ last.invoked # "none"
    /\ BothReady(Self(1))

\* whether the request carries a content-type whose bytes start with b"application/grpc"
HasGrpcPrefix(req) ==
    /\ req.content_type # None
    /\ starts_with(req.content_type[1], GRPC_PREFIX)

\* whether the request carries a content-type whose bytes are not UTF-8
HasUndecodableHeader(req) ==
    /\ req.content_type # None
    /\ ~from_utf8_is_ok(req.content_type[1])

\* C7: every request dispatched after a successful poll_ready invokes exactly one
\* inner service: grpc if the content-type bytes start with b"application/grpc",
\* rest otherwise.
C7_RoutedByPrefix ==
    (last.op = "call" /\ BothReady(last.pre)) =>
        last.invoked = (IF HasGrpcPrefix(last.req) THEN "grpc" ELSE "rest")

\* C8: a request without a content-type header dispatched after a successful
\* poll_ready invokes the rest service and clears the rest flag only; dispatched
\* earlier it invokes nothing.
C8_NoHeaderIsPlain ==
    (last.op = "call" /\ last.req.content_type = None) =>
        IF BothReady(last.pre)
        THEN /\ last.invoked = "rest"
             /\ last.ret = Future
             /\ ~rest_ready[last.inst]
             /\ grpc_ready[last.inst]
        ELSE last.invoked = "none"

\* C8 witness: a request without a content-type was dispatched to the rest service
C8_Witness ==
    /\ last.op = "call"
    /\ last.req.content_type = None
    /\ BothReady(last.pre)
    /\ last.invoked = "rest"
    /\ ~rest_ready[last.inst]

\* C9: a content-type that is not UTF-8 never makes a dispatch panic: after a
\* successful poll_ready the request is routed by its byte prefix like any other.
C9_UndecodableHeaderIsSwallowed ==
    (last.op = "call" /\ BothReady(last.pre) /\ HasUndecodableHeader(last.req)) =>
        /\ last.ret.kind # "Panic"
        /\ last.invoked = (IF HasGrpcPrefix(last.req) THEN "grpc" ELSE "rest")

\* C10, in a step: a call() taken right after a poll_ready of the same value
\* that returned an error fails an assert! and invokes nothing
C10_GateStaysClosed ==
    (/\ last.op = "poll_ready"
     /\ last.ret.kind = "Err"
     /\ last'.op = "call"
     /\ last'.inst = last.inst)
    => /\ last'.ret \in PreconditionPanics
       /\ last'.invoked = "none"

\* C10: when the grpc service's poll_ready answers an error, poll_ready returns
\* that error and leaves the grpc flag not set (and it returns no error that the
\* grpc service did not answer); a call() right after fails the precondition.
C10_GrpcPollErrorPropagates ==
    /\ [](last.op = "poll_ready" =>
            /\ \A k \in 1..Len(last.polled) :
                  (last.polled[k] = "grpc" /\ last.answers[k].kind = "Err") =>
                      /\ last.ret = ReadyErr(last.answers[k].val)
                      /\ ~grpc_ready[last.inst]
            /\ last.ret.kind = "Err" =>
                  \E k \in 1..Len(last.polled) :
                      last.polled[k] = "grpc" /\ last.answers[k] = last.ret)
    /\ [][C10_GateStaysClosed]_vars

\* C10 witness: poll_ready asked the rest service, which was ready, then the grpc
\* service, which answered the error E2, and returned E2
C10_Witness ==
    /\ last.op = "poll_ready"
    /\ last.polled = <<"rest", "grpc">>
    /\ last.answers[2] = ReadyErr("E2")
    /\ last.ret = ReadyErr("E2")
    /\ rest_ready[last.inst]
    /\ ~grpc_ready[last.inst]

\* C11: the future of a request routed to the grpc service resolves to the inner
\* future's error, unchanged, when that is an error, and to the response made
\* from the inner response when it is a success; the future of a request routed
\* to the rest service never resolves to an error.
C11_GrpcErrorUnchanged ==
    last.op = "complete" =>
        /\ last.answers[1].kind = "Err" =>
              /\ last.invoked = "grpc"
              /\ last.ret = [kind |-> "Err", val |-> last.answers[1].val]
        /\ last.answers[1].kind = "Ok" =>
              last.ret = [kind |-> "Response", val |-> last.answers[1].val]
        /\ last.invoked = "rest" => last.ret.kind = "Response"

\* C11 witness: the future of a grpc request resolved to the inner error E1
C11_Witness ==
    /\ last.op = "complete"
    /\ last.invoked = "grpc"
    /\ last.answers = <<ReadyErr("E1")>>
    /\ last.ret = ReadyErr("E1")

\* C12 as stated: once the future of a dispatch is dropped, the flag of the
\* inner service that dispatch consumed is not set
C12_FlagUnsetAfterDrop ==
    last.op = "drop" => ~Flag(last.inst, last.invoked)

\* C12, in a step: dropping a future changes no flag and no confirmation count
\* (the inner service is not invoked again) and ends exactly that future; a
\* drop right after the call() that made the future finds the consumed flag not
\* set; a poll_ready right after a drop whose inner services answer ready
\* returns Ready(Ok) with both flags set
C12_DropStep ==
    /\ last'.op = "drop" =>
          /\ rest_ready' = rest_ready
          /\ grpc_ready' = grpc_ready
          /\ balance' = balance
          /\ inflight'[last'.inst][last'.invoked] = inflight[last'.inst][last'.invoked] - 1
          /\ (last.op = "call" /\ last.inst = last'.inst /\ last.invoked = last'.invoked) =>
                ~Flag(last.inst, last.invoked)
    /\ (/\ last.op = "drop"
        /\ last'.op = "poll_ready"
        /\ last'.inst = last.inst
        /\ \A k \in 1..Len(last'.answers) : last'.answers[k].kind = "Ok")
       => /\ last'.ret = ReadyOk
          /\ rest_ready'[last.inst]
          /\ grpc_ready'[last.inst]

\* C12 (amended): dropping the future of a dispatch ends it without invoking an
\* inner service again and without touching a flag: the consumed flag is as the
\* dispatch left it (not set) unless a poll_ready since has set it again, and a
\* poll_ready after the drop can set it and open the gate.
C12_DropReleases == [][C12_DropStep]_vars

\* C12 witness: the future of a dispatch was dropped, the consumed flag is not
\* set and no future is left
C12_Witness ==
    /\ last.op = "drop"
    /\ ~Flag(last.inst, last.invoked)
    /\ Flag(last.inst, Other(last.invoked))
    /\ inflight[last.inst][last.invoked] = 0

\* b"https://app.xambit.io"
O_ex_app == O_https \o O_app \o XAMBIT_SUFFIX

\* b"http://localhost:3000"
O_ex_localhost == LOCALHOST_PREFIX \o O_port

\* b"https://evil.com"
O_ex_evil == O_https \o O_evil

\* C13: each layer's origin predicate accepts an origin value exactly when it is
\* empty, or ends with b"xambit.io", or starts with b"http://localhost"; b"",
\* b"https://app.xambit.io" and b"http://localhost:3000" are accepted and
\* b"https://evil.com" is rejected; the two layers answer alike on every value.
C13_OriginPredicate ==
    /\ cors.layer # "none" =>
          /\ cors.allowed <=>
                \/ cors.origin = <<>>
                \/ ends_with(cors.origin, XAMBIT_SUFFIX)
                \/ starts_with(cors.origin, LOCALHOST_PREFIX)
          /\ cors.origin \in {<<>>, O_ex_app, O_ex_localhost} => cors.allowed
          /\ cors.origin = O_ex_evil => ~cors.allowed
    /\ \A o \in Origins : rest_allow_origin(o) = grpc_allow_origin(o)

\* C13 witness: the grpc layer has rejected b"https://evil.com"
C13_Witness ==
    /\ cors.layer = "grpc"
    /\ cors.origin = O_ex_evil
    /\ ~cors.allowed

\* the position of inner service b in the list of services a poll_ready asked, 0 if
\* it was not asked
PolledAt(b) ==
    IF \E k \in 1..Len(last.polled) : last.polled[k] = b
    THEN CHOOSE k \in 1..Len(last.polled) : last.polled[k] = b
    ELSE 0

\* C14: in a poll_ready the grpc service is asked only with the rest flag set:
\* either it was set before, or the rest service was asked first in this pass
\* and answered ready; with both flags set neither service is asked and
\* poll_ready returns Ready(Ok).
C14_RestPolledFirst ==
    last.op = "poll_ready" =>
        /\ PolledAt("grpc") # 0 =>
              /\ rest_ready[last.inst]
              /\ \/ last.pre.rest_ready /\ PolledAt("rest") = 0
                 \/ /\ ~last.pre.rest_ready
                    /\ PolledAt("rest") = 1
                    /\ PolledAt("grpc") = 2
                    /\ last.answers[1].kind = "Ok"
        /\ ~last.pre.rest_ready => PolledAt("rest") = 1
        /\ BothReady(last.pre) => (last.polled = <<>> /\ last.ret = ReadyOk)

\* C14 witness: a pass asked the rest service, which was ready, and then the
\* grpc service, which was not
C14_Witness ==
    /\ last.op = "poll_ready"
    /\ last.polled = <<"rest", "grpc">>
    /\ last.answers[2] = Pending
    /\ last.ret = Pending

\* C15, in a step: a flag of value i goes from not set to set only in a
\* poll_ready on i in which that inner service answered ready, and from set to
\* not set only in a call() on i that invokes that inner service
C15_FlagStep ==
    \A i \in Inst :
        /\ (~rest_ready[i] /\ rest_ready'[i]) =>
              /\ last'.op = "poll_ready" /\ last'.inst = i
              /\ \E k \in 1..Len(last'.polled) :
                    last'.polled[k] = "rest" /\ last'.answers[k].kind = "Ok"
        /\ (~grpc_ready[i] /\ grpc_ready'[i]) =>
              /\ last'.op = "poll_ready" /\ last'.inst = i
              /\ \E k \in 1..Len(last'.polled) :
                    last'.polled[k] = "grpc" /\ last'.answers[k].kind = "Ok"
        /\ (rest_ready[i] /\ ~rest_ready'[i]) =>
              (last'.op = "call" /\ last'.inst = i /\ last'.invoked = "rest")
        /\ (grpc_ready[i] /\ ~grpc_ready'[i]) =>
              (last'.op = "call" /\ last'.inst = i /\ last'.invoked = "grpc")

\* C15: a readiness flag is set only by a successful check of its inner service
\* and cleared only by the dispatch that invokes that inner service.
C15_SetByCheckClearedByCall == [][C15_FlagStep]_vars

\* C15 witness: a pass in which the rest service answered ready and the grpc
\* service failed has set the rest flag and left the grpc flag
C15_Witness ==
    /\ last.op = "poll_ready"
    /\ last.pre = new
    /\ last.ret.kind = "Err"
    /\ rest_ready[last.inst]
    /\ ~grpc_ready[last.inst]

\* C17: for each inner service of each value, the successful readiness checks
\* minus the invocations is 0 or 1 and is 1 exactly when the flag is set; a
\* poll_ready that finds a flag set does not ask that inner service again, and a
\* pass that suspends or fails on the grpc service keeps the rest flag it has.
C17_OneConfirmationPerFlag ==
    /\ \A i \in Inst, b \in Backends :
          /\ balance[i][b] \in {0, 1}
          /\ balance[i][b] = 1 <=> Flag(i, b)
    /\ last.op = "poll_ready" =>
          /\ \A b \in Backends :
                (IF b = "rest" THEN last.pre.rest_ready ELSE last.pre.grpc_ready) =>
                    /\ PolledAt(b) = 0
                    /\ Flag(last.inst, b)
          /\ (last.ret.kind \in {"Pending", "Err"} /\ PolledAt("grpc") # 0) =>
                (rest_ready[last.inst] /\ balance[last.inst]["rest"] = 1)

\* C17 witness: the rest flag, set in an earlier pass, is kept by a pass that asks
\* only the grpc service and suspends on it
C17_Witness ==
    /\ last.op = "poll_ready"
    /\ last.pre.rest_ready
    /\ ~last.pre.grpc_ready
    /\ last.polled = <<"grpc">>
    /\ last.ret = Pending
    /\ balance[last.inst] = [b \in Backends |-> IF b = "rest" THEN 1 ELSE 0]

\* C18, in a step: a poll_ready on a value whose flags are both set changes no
\* flag and no confirmation count
C18_NoChange ==
    (last'.op = "poll_ready" /\ BothReady(Self(last'.inst))) =>
        /\ rest_ready' = rest_ready
        /\ grpc_ready' = grpc_ready
        /\ balance' = balance

\* C18: poll_ready on a value whose flags are both set returns Ready(Ok) at once,
\* asks neither inner service and leaves both flags set, each time it is called.
C18_IdempotentWhenOpen ==
    /\ [](last.op = "poll_ready" /\ BothReady(last.pre) =>
            /\ last.ret = ReadyOk
            /\ last.polled = <<>>
            /\ last.answers = <<>>
            /\ Self(last.inst) = last.pre)
    /\ [][C18_NoChange]_vars

\* C18 witness: poll_ready was called with both flags set and returned Ready(Ok)
\* without asking an inner service
C18_Witness ==
    /\ last.op = "poll_ready"
    /\ BothReady(last.pre)
    /\ last.polled = <<>>
    /\ last.ret = ReadyOk
    /\ BothReady(Self(last.inst))

\* C16: every call of poll_ready ends, having asked each inner service at most
\* once, in Pending, an error or Ready(Ok); and when the caller keeps polling and
\* each inner service asked again and again ends up answering ready, a value whose
\* gate is closed gets a poll_ready that returns Ready(Ok) with both flags set.
C16_PrepareEventuallySucceeds ==
    /\ [](last.op = "poll_ready" =>
            /\ Len(last.polled) <= 2
            /\ last.ret.kind \in {"Pending", "Err", "Ok"})
    /\ (~BothReady(Self(1))) ~>
          (last.op = "poll_ready" /\ last.ret = ReadyOk /\ BothReady(Self(1)))

\* C16 witness: after a pass that had set the rest flag only, a later pass asked
\* the grpc service, found it ready and returned Ready(Ok)
C16_Witness ==
    /\ last.op = "poll_ready"
    /\ last.pre.rest_ready
    /\ ~last.pre.grpc_ready
    /\ last.polled = <<"grpc">>
    /\ last.ret = ReadyOk
    /\ BothReady(Self(last.inst))

====
